---- MODULE Spec2Model ----
(***************************************************************************)
(* CRM case follow-up pipeline: main.py drives load_and_validate,          *)
(* group_by_owner, build_drafts and send_emails over one input table.      *)
(*                                                                         *)
(* Conventions of the model                                                *)
(*  - a missing cell (pandas NaN) of a text column is the string "NaN",    *)
(*    which read_csv itself parses as a missing value;                     *)
(*  - a created_date cell is [k, v]: k = "date" (v is a day number),       *)
(*    k = "nat" (missing, parsed to NaT) or k = "bad" (unparseable);       *)
(*  - an age cell is [k, v]: k = "num" (v is the number in units of        *)
(*    1/AgeScale day, so that fractional ages exist), k = "nan" (missing)  *)
(*    or k = "str" (text that is not a number);                            *)
(*  - every row keeps its DataFrame index label in the field row.          *)
(* The case_title column never influences control flow or any other field *)
(* and is carried only as a column name of the header.                     *)
(***************************************************************************)
EXTENDS Integers, Sequences, FiniteSets, TLC

VARIABLES
    file,          \* the input file: [readable, header, rows]
    send,          \* args.send
    owner_filter,  \* args.owner; "" stands for None (both are falsy)
    pc,            \* position of main()
    cases_df,      \* main.cases_df
    owners,        \* main.owners, in dict iteration order
    drafts,        \* main.drafts, in dict iteration order
    i,             \* send_emails: position of the loop over drafts
    attempts,      \* the calls of _send_via_smtp / _send_via_graph, with outcome
    results,       \* send_emails.results / main.results
    log,           \* the session log list (init_log)
    send_log,      \* rows appended to output/send_log.csv
    summary        \* what print_summary reports

vars == <<file, send, owner_filter, pc, cases_df, owners, drafts, i,
          attempts, results, log, send_log, summary>>

----------------------------------------------------------------------------
(* Bounds of the model *)

MaxRows == 3
MaxRowsRank == 4
MaxRowsIds == 2
MaxRowsAge == 2
MaxRowsExcl == 3
Today == 10
AgeScale == 2

----------------------------------------------------------------------------
(* Configuration tables of the parser *)

NaN == "NaN"

OWNER_EMAIL_MAP ==
    [n \in {"Fadi Hanna", "Georges Mouaikel", "Jana Sweid",
            "Mennatullah El Bahr", "Rebecca Estephan"} |->
        CASE n = "Fadi Hanna" -> "FHanna@info-sys.com"
          [] n = "Georges Mouaikel" -> "GMouaikel@info-sys.com"
          [] n = "Jana Sweid" -> "JSweid@info-sys.com"
          [] n = "Mennatullah El Bahr" -> "MElBahr@info-sys.com"
          [] n = "Rebecca Estephan" -> "REstephan@info-sys.com"]

MANAGER_OWNER_NAME == "Abdo Khoury"

BLOCKED_OWNER_NAME == "Raji Aoun"

REQUIRED_COLUMNS ==
    {"case_id", "case_title", "owner_name", "owner_email", "created_date"}

VALID_PRIORITIES == {"High", "Normal", "Medium", "Low"}

VALID_PRIORITIES_Src == {"High", "Medium", "Low"}

\* dict.get(c, c) over COLUMN_MAP, as DataFrame.rename applies it
COLUMN_MAP(c) ==
    CASE c = "(do_not_modify)_case" -> "case_id"
      [] c = "owner" -> "owner_name"
      [] c = "created_on" -> "created_date"
      [] c = "case_title" -> "case_title"
      [] c = "title" -> "case_title"
      [] c = "age" -> "age_days"
      [] OTHER -> c

----------------------------------------------------------------------------
(* String functions, tabulated on the strings the model draws *)

\* c.strip().lower().replace(" ", "_")
NormalizeColumn(c) ==
    CASE c = "(Do Not Modify) Case" -> "(do_not_modify)_case"
      [] c = "Owner" -> "owner"
      [] c = "Created On" -> "created_on"
      [] c = "Case Title" -> "case_title"
      [] c = "Age" -> "age"
      [] c = "Priority" -> "priority"
      [] c = "Case ID" -> "case_id"
      [] c = "Owner Name" -> "owner_name"
      [] c = "Owner Email" -> "owner_email"
      [] c = "Created Date" -> "created_date"
      [] OTHER -> c

\* str.strip (a missing value stays missing)
Strip(s) ==
    CASE s = " Raji Aoun " -> "Raji Aoun"
      [] s = "Abdo Khoury " -> "Abdo Khoury"
      [] s = " Fadi Hanna " -> "Fadi Hanna"
      [] s = "  " -> ""
      [] s = " C-2 " -> "C-2"
      [] s = "  high " -> "high"
      [] OTHER -> s

\* str.capitalize
Capitalize(s) ==
    CASE s = "high" -> "High"
      [] s = "urgent" -> "Urgent"
      [] s = "LOW" -> "Low"
      [] OTHER -> s

\* str.title
Title(s) ==
    CASE s = "abdo khoury" -> "Abdo Khoury"
      [] OTHER -> s

\* int(x) of a number held in units of 1/AgeScale: truncation toward zero
IntTrunc(x) == IF x >= 0 THEN x \div AgeScale ELSE -((-x) \div AgeScale)

----------------------------------------------------------------------------
(* Sequence helpers *)

SeqsUpTo(S, n) == UNION {[1..k -> S] : k \in 0..n}

Range(s) == {s[k] : k \in DOMAIN s}

RECURSIVE SumSeq(_)
SumSeq(s) == IF s = <<>> THEN 0 ELSE Head(s) + SumSeq(Tail(s))

----------------------------------------------------------------------------
(* src/parser.py : load_and_validate *)

\* df.columns after normalisation and df.rename(columns=COLUMN_MAP)
Columns(header) == {COLUMN_MAP(NormalizeColumn(c)) : c \in header}

\* pd.read_csv / pd.read_excel: the rows, each with its index label; the
\* cells of a column the file does not have are missing
ReadFile(f, cols) ==
    [k \in DOMAIN f.rows |->
        [row          |-> k,
         case_id      |-> IF "case_id" \in cols THEN f.rows[k].case_id ELSE NaN,
         owner_name   |-> IF "owner_name" \in cols
                          THEN f.rows[k].owner_name ELSE NaN,
         owner_email  |-> IF "owner_email" \in cols
                          THEN f.rows[k].owner_email ELSE NaN,
         created_date |-> IF "created_date" \in cols
                          THEN f.rows[k].created_date
                          ELSE [k |-> "nat", v |-> 0],
         age_days     |-> IF "age_days" \in cols
                          THEN f.rows[k].age_days
                          ELSE [k |-> "nan", v |-> 0],
         priority     |-> IF "priority" \in cols
                          THEN f.rows[k].priority ELSE NaN]]

\* Series.map(OWNER_EMAIL_MAP): no match gives a missing value
MapOwnerEmail(name) ==
    IF name \in DOMAIN OWNER_EMAIL_MAP THEN OWNER_EMAIL_MAP[name] ELSE NaN

\* owner_name stripped, owner_email derived from it
DeriveOwnerEmail(df) ==
    [k \in DOMAIN df |->
        [df[k] EXCEPT !.owner_name = Strip(@),
                      !.owner_email = MapOwnerEmail(Strip(df[k].owner_name))]]

\* the manager's rows removed, then the blocked owner's
ExcludeOwners(df) ==
    LET NotManager(r) == r.owner_name # MANAGER_OWNER_NAME
        NotBlocked(r) == r.owner_name # BLOCKED_OWNER_NAME
    IN  SelectSeq(SelectSeq(df, NotManager), NotBlocked)

\* REQUIRED_COLUMNS - set(df.columns)
MissingColumns(cols) == REQUIRED_COLUMNS \ cols

\* fillna("Medium"), strip, capitalize, anything invalid becomes "Medium"
PriorityOf(cell, valid) ==
    LET p == Capitalize(Strip(IF cell = NaN THEN "Medium" ELSE cell))
    IN  IF p \in valid THEN p ELSE "Medium"

NormalizePriority(df, cols, valid) ==
    [k \in DOMAIN df |->
        [df[k] EXCEPT !.priority = IF "priority" \notin cols THEN "Medium"
                                   ELSE PriorityOf(@, valid)]]

\* pd.to_datetime(errors="coerce"): nothing is unparseable
DatesParseCoerce(df) == TRUE

\* pd.to_datetime raises when some value cannot be parsed
DatesParse(df) == \A k \in DOMAIN df : df[k].created_date.k # "bad"

\* pd.to_numeric(errors="coerce"): text that is no number becomes missing
ToNumeric(cell) ==
    IF cell.k = "num" THEN cell ELSE [k |-> "nan", v |-> 0]

\* (today - created_date).dt.days: missing for NaT
CalculatedAge(created) ==
    IF created.k = "date"
    THEN [k |-> "num", v |-> (Today - created.v) * AgeScale]
    ELSE [k |-> "nan", v |-> 0]

\* Series.fillna
FillNa(cell, other) == IF cell.k = "nan" THEN other ELSE cell

\* the age always computed from the dates, as Src/parser.py does
AgeOfComputedOnly(r, cols) == CalculatedAge(r.created_date)

\* the explicit age column coerced and its gaps filled from the dates, or
\* the age computed from the dates when there is no such column
AgeOf(r, cols) ==
    IF "age_days" \in cols
    THEN FillNa(ToNumeric(r.age_days), CalculatedAge(r.created_date))
    ELSE CalculatedAge(r.created_date)

ComputeAge(df, cols) ==
    [k \in DOMAIN df |-> [df[k] EXCEPT !.age_days = AgeOf(df[k], cols)]]

\* df.dropna(subset=["owner_email", "case_id"])
DropMissing(df) ==
    LET Present(r) == r.owner_email # NaN /\ r.case_id # NaN
    IN  SelectSeq(df, Present)

\* the whole function: [status, df], status "ok", "sys.exit" or "KeyError"
load_and_validate(f) ==
    LET cols0 == Columns(f.header)
        cols  == cols0 \cup {"owner_email"}
        df    == ExcludeOwners(DeriveOwnerEmail(ReadFile(f, cols0)))
    IN  IF ~f.readable THEN [status |-> "sys.exit", df |-> <<>>]
        ELSE IF "owner_name" \notin cols0
             THEN [status |-> "KeyError", df |-> <<>>]
        ELSE IF MissingColumns(cols) # {}
             THEN [status |-> "sys.exit", df |-> <<>>]
        ELSE IF ~DatesParse(df) THEN [status |-> "sys.exit", df |-> <<>>]
        ELSE [status |-> "ok",
              df |-> DropMissing(ComputeAge(
                         NormalizePriority(df, cols, VALID_PRIORITIES), cols))]

----------------------------------------------------------------------------
(* Src/parser.py : load_and_validate *)

\* df.columns after normalisation; this parser renames nothing
Columns_Src(header) == {NormalizeColumn(c) : c \in header}

\* owner_email is read from the file, nobody is excluded and the age is
\* always computed from the dates
load_and_validate_Src(f) ==
    LET cols == Columns_Src(f.header)
        df   == ReadFile(f, cols)
    IN  IF ~f.readable THEN [status |-> "sys.exit", df |-> <<>>]
        ELSE IF MissingColumns(cols) # {}
             THEN [status |-> "sys.exit", df |-> <<>>]
        ELSE IF ~DatesParse(df) THEN [status |-> "sys.exit", df |-> <<>>]
        ELSE [status |-> "ok",
              df |-> DropMissing(ComputeAge(
                         NormalizePriority(df, cols, VALID_PRIORITIES_Src),
                         cols \ {"age_days"}))]

----------------------------------------------------------------------------
(* src/grouper.py *)

\* the owner emails of the model in ascending string order: groupby visits
\* its keys sorted, and a dict iterates in insertion order
EmailOrder ==
    <<"Akhoury@info-sys.com", "FHanna@info-sys.com", "GMouaikel@info-sys.com",
      "JSweid@info-sys.com", "MElBahr@info-sys.com", "RAoun@info-sys.com",
      "REstephan@info-sys.com">>

\* the group keys of df.groupby("owner_email"), in the order visited
GroupKeys(df) ==
    LET Occurs(e) == \E k \in DOMAIN df : df[k].owner_email = e
    IN  SelectSeq(EmailOrder, Occurs)

\* one group: the rows of that owner in their original relative order
GroupOf(df, email) ==
    LET Mine(r) == r.owner_email = email
    IN  SelectSeq(df, Mine)

\* every order of the rows I of g with age_days non-increasing
RECURSIVE DescendingOrders(_, _)
DescendingOrders(g, I) ==
    IF I = {} THEN {<<>>}
    ELSE LET oldest == {k \in I : \A j \in I :
                            g[j].age_days.v <= g[k].age_days.v}
         IN  UNION {{<<g[k]>> \o rest : rest \in DescendingOrders(g, I \ {k})}
                    : k \in oldest}

\* every order of the rows I of g with age_days non-decreasing
RECURSIVE AscendingOrders(_, _)
AscendingOrders(g, I) ==
    IF I = {} THEN {<<>>}
    ELSE LET youngest == {k \in I : \A j \in I :
                              g[k].age_days.v <= g[j].age_days.v}
         IN  UNION {{<<g[k]>> \o rest : rest \in AscendingOrders(g, I \ {k})}
                    : k \in youngest}

sort_values_ascending(group) == AscendingOrders(group, DOMAIN group)

\* group.sort_values("age_days", ascending=False): the call leaves kind at
\* its default "quicksort", which pandas documents as not stable, so the
\* order of rows of equal age is whatever the build produces: the set of
\* results the call may return
sort_values(group) == DescendingOrders(group, DOMAIN group)

\* row["created_date"].strftime("%d %b %Y")
Strftime(created) == [fmt |-> "%d %b %Y", day |-> created.v]

_to_case_list(df) ==
    [k \in DOMAIN df |->
        [row          |-> df[k].row,
         case_id      |-> Strip(df[k].case_id),
         age_days     |-> IntTrunc(df[k].age_days.v),
         priority     |-> Strip(df[k].priority),
         created_date |-> Strftime(df[k].created_date)]]

\* int(NaN) and NaT.strftime raise ValueError
CaseListRaises(df) ==
    \E k \in DOMAIN df :
        df[k].age_days.k = "nan" \/ df[k].created_date.k # "date"

\* the digest of one owner, all_cases and total_cases cut to the top 3
DigestTop3Only(sorted_group, owner_email) ==
    LET all_cases == _to_case_list(sorted_group)
        top3 == SubSeq(all_cases, 1, IF Len(all_cases) < 3
                                     THEN Len(all_cases) ELSE 3)
    IN  [owner_name  |-> Title(Strip(sorted_group[1].owner_name)),
         owner_email |-> owner_email,
         total_cases |-> Len(top3),
         top3        |-> top3,
         all_cases   |-> top3]

\* the digest of one owner from its sorted group
Digest(sorted_group, owner_email) ==
    LET all_cases == _to_case_list(sorted_group)
    IN  [owner_name  |-> Title(Strip(sorted_group[1].owner_name)),
         owner_email |-> owner_email,
         total_cases |-> Len(sorted_group),
         top3        |-> SubSeq(all_cases, 1, IF Len(all_cases) < 3
                                              THEN Len(all_cases) ELSE 3),
         all_cases   |-> all_cases]

\* the mappings the loop over the groups may build, keys in ks
RECURSIVE DigestSeqs(_, _)
DigestSeqs(df, ks) ==
    IF ks = <<>> THEN {<<>>}
    ELSE {<<Digest(sg, Head(ks))>> \o rest :
            sg \in sort_values(GroupOf(df, Head(ks))),
            rest \in DigestSeqs(df, Tail(ks))}

\* the whole function: [status, owners], owners the set of possible results
group_by_owner(df) ==
    IF CaseListRaises(df)
    THEN [status |-> "ValueError", owners |-> {<<>>}]
    ELSE [status |-> "ok", owners |-> DigestSeqs(df, GroupKeys(df))]

----------------------------------------------------------------------------
(* Src/email_builder.py, src/email_sender.py, Src/logger.py *)

\* `if filter_owner and owner_email != filter_owner: continue`
Skipped(owner_email, filter_owner) ==
    filter_owner # "" /\ owner_email # filter_owner

\* drafts[owner_email]: subject and the rendered template, which is
\* determined by the values handed to template.render
DraftOf(data) ==
    [owner_email  |-> data.owner_email,
     subject      |-> "Action Required: Follow-Up on Your Top Aged Cases",
     html_content |-> [owner_name  |-> data.owner_name,
                       top3        |-> data.top3,
                       total_cases |-> data.total_cases]]

\* build_drafts without the filter_owner test
build_drafts_unfiltered(owners_, filter_owner) ==
    [k \in DOMAIN owners_ |-> DraftOf(owners_[k])]

\* one draft per owner that passes the filter, in the order of owners
build_drafts(owners_, filter_owner) ==
    LET Kept(data) == ~Skipped(data.owner_email, filter_owner)
        kept == SelectSeq(owners_, Kept)
    IN  [k \in DOMAIN kept |-> DraftOf(kept[k])]

\* owners[owner_email]["owner_name"]
OwnerName(owners_, owner_email) ==
    (CHOOSE d \in Range(owners_) : d.owner_email = owner_email).owner_name

\* the status of one delivery: "SENT", or f"FAILED: {e}"
StatusOf(delivered) == IF delivered THEN "SENT" ELSE "FAILED: error"

\* print_summary
Summary(owners_, drafts_, results_, dry_run) ==
    LET Sent(r) == r.status = "SENT"
        Failed(r) == r.status # "SENT"
    IN  [owners  |-> Len(owners_),
         drafts  |-> Len(drafts_),
         dry_run |-> dry_run,
         sent    |-> IF dry_run THEN 0 ELSE Len(SelectSeq(results_, Sent)),
         failed  |-> IF dry_run THEN <<>> ELSE SelectSeq(results_, Failed)]

NoSummary == [owners |-> 0, drafts |-> 0, dry_run |-> TRUE, sent |-> 0,
              failed |-> <<>>]

----------------------------------------------------------------------------
(* main.py : main, one action per step *)

\* `from src.parser import load_and_validate` bound to Src/parser.py
Loaded_Src(f) == load_and_validate_Src(f)

\* `from src.parser import load_and_validate`: the package src holds the
\* parser.py of src/
Loaded(f) == load_and_validate(f)

\* [1/4] cases_df = load_and_validate(args.input)
Load ==
    /\ pc = "start"
    /\ LET out == Loaded(file)
       IN  /\ cases_df' = out.df
           /\ pc' = IF out.status = "ok" THEN "validated" ELSE out.status
    /\ UNCHANGED <<file, send, owner_filter, owners, drafts, i,
                   attempts, results, log, send_log, summary>>

\* [2/4] owners = group_by_owner(cases_df)
Group ==
    /\ pc = "validated"
    /\ LET out == group_by_owner(cases_df)
       IN  /\ owners' \in out.owners
           /\ pc' = IF out.status = "ok" THEN "grouped" ELSE out.status
    /\ UNCHANGED <<file, send, owner_filter, cases_df, drafts, i,
                   attempts, results, log, send_log, summary>>

\* [3/4] drafts = build_drafts(owners, filter_owner=args.owner)
Build ==
    /\ pc = "grouped"
    /\ drafts' = build_drafts(owners, owner_filter)
    /\ pc' = "drafted"
    /\ UNCHANGED <<file, send, owner_filter, cases_df, owners, i,
                   attempts, results, log, send_log, summary>>

\* [4/4] dry run: log = init_log(); results = []; print_summary
DryRun ==
    /\ pc = "drafted"
    /\ ~send
    /\ log' = <<>>
    /\ results' = <<>>
    /\ summary' = Summary(owners, drafts, <<>>, TRUE)
    /\ pc' = "done"
    /\ UNCHANGED <<file, send, owner_filter, cases_df, owners, drafts,
                   i, attempts, send_log>>

\* send_emails entered whatever args.send is
StartSendAlways ==
    /\ pc = "drafted"
    /\ log' = <<>>
    /\ results' = <<>>
    /\ i' = 1
    /\ pc' = "sending"
    /\ UNCHANGED <<file, send, owner_filter, cases_df, owners, drafts,
                   attempts, send_log, summary>>

\* [4/4] live: log = init_log(); send_emails is entered
StartSend ==
    /\ pc = "drafted"
    /\ send
    /\ log' = <<>>
    /\ results' = <<>>
    /\ i' = 1
    /\ pc' = "sending"
    /\ UNCHANGED <<file, send, owner_filter, cases_df, owners, drafts,
                   attempts, send_log, summary>>

\* one iteration of a loop that a failed delivery ends
DeliverStopOnFailure ==
    /\ pc = "sending"
    /\ i <= Len(drafts)
    /\ IF Skipped(drafts[i].owner_email, owner_filter)
       THEN i' = i + 1 /\ UNCHANGED <<attempts, results, log>>
       ELSE \E delivered \in BOOLEAN :
              LET status == StatusOf(delivered)
              IN  /\ i' = IF delivered THEN i + 1 ELSE Len(drafts) + 1
                  /\ attempts' = Append(attempts,
                        [owner_email |-> drafts[i].owner_email,
                         owner_name  |-> OwnerName(owners,
                                                   drafts[i].owner_email),
                         delivered   |-> delivered])
                  /\ results' = Append(results,
                        [owner_email |-> drafts[i].owner_email,
                         status      |-> status])
                  /\ log' = Append(log,
                        [owner_email |-> drafts[i].owner_email,
                         subject     |-> drafts[i].subject,
                         status      |-> status])
    /\ UNCHANGED <<file, send, owner_filter, pc, cases_df, owners,
                   drafts, send_log, summary>>

\* send_emails: one iteration of the loop over drafts; the transport
\* either returns or raises, and the except clause turns that into a status
Deliver ==
    /\ pc = "sending"
    /\ i <= Len(drafts)
    /\ i' = i + 1
    /\ IF Skipped(drafts[i].owner_email, owner_filter)
       THEN UNCHANGED <<attempts, results, log>>
       ELSE \E delivered \in BOOLEAN :
              LET status == StatusOf(delivered)
              IN  /\ attempts' = Append(attempts,
                        [owner_email |-> drafts[i].owner_email,
                         owner_name  |-> OwnerName(owners,
                                                   drafts[i].owner_email),
                         delivered   |-> delivered])
                  /\ results' = Append(results,
                        [owner_email |-> drafts[i].owner_email,
                         status      |-> status])
                  /\ log' = Append(log,
                        [owner_email |-> drafts[i].owner_email,
                         subject     |-> drafts[i].subject,
                         status      |-> status])
    /\ UNCHANGED <<file, send, owner_filter, pc, cases_df, owners,
                   drafts, send_log, summary>>

\* send_emails: the loop is over, _write_log(log), return; print_summary
FinishSend ==
    /\ pc = "sending"
    /\ i > Len(drafts)
    /\ send_log' = send_log \o log
    /\ summary' = Summary(owners, drafts, results, FALSE)
    /\ pc' = "done"
    /\ UNCHANGED <<file, send, owner_filter, cases_df, owners, drafts,
                   i, attempts, results, log>>

Next == Load \/ Group \/ Build \/ DryRun \/ StartSend \/ Deliver \/ FinishSend

----------------------------------------------------------------------------
(* Inputs *)

Date(d) == [k |-> "date", v |-> d]
NaT == [k |-> "nat", v |-> 0]
BadDate == [k |-> "bad", v |-> 0]
Num(x) == [k |-> "num", v |-> x]
NoAge == [k |-> "nan", v |-> 0]
TextAge == [k |-> "str", v |-> 0]

PastDate == Date(Today - 3)
FutureDate == Date(Today + 2)

BaseHeader == {"(Do Not Modify) Case", "Case Title", "Owner", "Created On"}
LegacyHeader ==
    {"Case ID", "Case Title", "Owner Name", "Owner Email", "Created Date"}

Rows(ids, names, emails, dates, ages, priorities) ==
    [case_id : ids, owner_name : names, owner_email : emails,
     created_date : dates, age_days : ages, priority : priorities]

\* a readable file with that header; a row has no cell in a column the
\* header does not have
InputFile(header, cols, rows) ==
    [readable |-> TRUE,
     header   |-> header,
     rows     |-> [k \in DOMAIN rows |->
        [case_id      |-> IF "case_id" \in cols THEN rows[k].case_id ELSE NaN,
         owner_name   |-> IF "owner_name" \in cols
                          THEN rows[k].owner_name ELSE NaN,
         owner_email  |-> IF "owner_email" \in cols
                          THEN rows[k].owner_email ELSE NaN,
         created_date |-> IF "created_date" \in cols
                          THEN rows[k].created_date ELSE NaT,
         age_days     |-> IF "age_days" \in cols
                          THEN rows[k].age_days ELSE NoAge,
         priority     |-> IF "priority" \in cols
                          THEN rows[k].priority ELSE NaN]]]

Files(headers, domain, n) ==
    {InputFile(h, Columns(h), rows) : h \in headers, rows \in SeqsUpTo(domain, n)}

UnreadableFile == [readable |-> FALSE, header |-> {}, rows |-> <<>>]

InitWith(files, filters) ==
    /\ file \in files
    /\ send \in BOOLEAN
    /\ owner_filter \in filters
    /\ pc = "start"
    /\ cases_df = <<>>
    /\ owners = <<>>
    /\ drafts = <<>>
    /\ i = 1
    /\ attempts = <<>>
    /\ results = <<>>
    /\ log = <<>>
    /\ send_log = <<>>
    /\ summary = NoSummary

\* control flow of main: fatal inputs, excluded owners, flag and filter
ControlRows ==
    Rows({"C-1"}, {"Jana Sweid", "Fadi Hanna", "Abdo Khoury", " Raji Aoun "},
         {NaN}, {PastDate, BadDate}, {NoAge}, {NaN})

Init ==
    InitWith({UnreadableFile} \cup
             Files({BaseHeader, BaseHeader \ {"Created On"},
                    BaseHeader \ {"Owner"}}, ControlRows, MaxRows),
             {"", "JSweid@info-sys.com", "jsweid@info-sys.com"})

Spec == Init /\ [][Next]_vars

\* ranking: explicit ages with ties for one owner, a second owner besides
RankRows ==
    Rows({"C-1"}, {"Jana Sweid"}, {NaN}, {PastDate},
         {Num(1), Num(2), Num(5)}, {NaN})
    \cup Rows({"C-1"}, {"Fadi Hanna"}, {NaN}, {PastDate}, {Num(2)}, {NaN})

InitRank ==
    InitWith(Files({BaseHeader \cup {"Age"}}, RankRows, MaxRowsRank), {""})

SpecRank == InitRank /\ [][Next]_vars

\* owner resolution and case ids
IdRows ==
    Rows({"C-1", "  ", NaN}, {"Jana Sweid", " Fadi Hanna ", "Nobody Known"},
         {NaN}, {PastDate}, {NoAge}, {"  high ", "urgent"})

InitIds ==
    InitWith(Files({BaseHeader \cup {"Priority"}}, IdRows, MaxRowsIds), {""})

SpecIds == InitIds /\ [][Next]_vars

\* ages: explicit column or not, past, future and missing dates
AgeRows ==
    Rows({"C-1"}, {"Jana Sweid"}, {NaN}, {PastDate, FutureDate, NaT},
         {NoAge, TextAge, Num(-3), Num(5), Num(4)}, {NaN})

InitAge ==
    InitWith(Files({BaseHeader, BaseHeader \cup {"Age"}}, AgeRows, MaxRowsAge),
             {""})

SpecAge == InitAge /\ [][Next]_vars

\* exclusion: a file that already has the canonical column names and an
\* owner_email column of its own
CanonicalHeader ==
    {"case_id", "case_title", "owner_name", "owner_email", "created_date"}

ExclRows ==
    {r \in Rows({"C-1"}, {"Jana Sweid", "Abdo Khoury", " Raji Aoun "},
                {NaN, "JSweid@info-sys.com", "Akhoury@info-sys.com",
                 "RAoun@info-sys.com"},
                {PastDate}, {NoAge}, {NaN}) :
        r.owner_email \in
            {NaN, CASE r.owner_name = "Jana Sweid" -> "JSweid@info-sys.com"
                    [] r.owner_name = "Abdo Khoury" -> "Akhoury@info-sys.com"
                    [] OTHER -> "RAoun@info-sys.com"}}

InitExcl == InitWith(Files({CanonicalHeader}, ExclRows, MaxRowsExcl), {""})

SpecExcl == InitExcl /\ [][Next]_vars

----------------------------------------------------------------------------
(* Properties *)

\* group_by_owner has returned
Grouped == pc \in {"grouped", "drafted", "sending", "done"}

RowsOf(cases) == {cases[p].row : p \in DOMAIN cases}

\* the rows of cases_df that belong to an owner
Partition(email) == {x \in Range(cases_df) : x.owner_email = email}

\* the row of cases_df with index label r
DfRow(r) == CHOOSE x \in Range(cases_df) : x.row = r

Min(a, b) == IF a < b THEN a ELSE b

\* C1: in every digest, top3 holds min(3, total_cases) distinct cases of the
\* owner's partition, no case of the partition left out of top3 is older
\* than a case in it, and the ages in top3 never increase
RankingCorrect ==
    Grouped =>
      \A k \in DOMAIN owners :
        LET d == owners[k]
            part == Partition(d.owner_email)
            in3 == RowsOf(d.top3)
        IN  /\ Len(d.top3) = Min(3, d.total_cases)
            /\ Len(d.top3) = Min(3, Cardinality(part))
            /\ Cardinality(in3) = Len(d.top3)
            /\ in3 \subseteq {x.row : x \in part}
            /\ \A p \in DOMAIN d.top3 :
                 d.top3[p].age_days = IntTrunc(DfRow(d.top3[p].row).age_days.v)
            /\ \A x \in part : x.row \notin in3 =>
                 \A p \in DOMAIN d.top3 :
                   IntTrunc(x.age_days.v) <= d.top3[p].age_days
            /\ \A p \in DOMAIN d.top3 : \A q \in DOMAIN d.top3 :
                 p < q => d.top3[p].age_days >= d.top3[q].age_days

\* an owner with more than three cases of different ages has been ranked
RankingWitness ==
    /\ Grouped
    /\ \E k \in DOMAIN owners :
         /\ owners[k].total_cases > 3
         /\ owners[k].top3[1].age_days > owners[k].top3[3].age_days
         /\ \E x \in Partition(owners[k].owner_email) :
              /\ x.row \notin RowsOf(owners[k].top3)
              /\ IntTrunc(x.age_days.v) < owners[k].top3[3].age_days

\* C2: the total_cases of the digests add up to the number of validated
\* rows, every validated row is in all_cases of exactly one digest, the one
\* of its owner_email, no digest lists a row twice, and no rows give no
\* digests
TotalConservation ==
    Grouped =>
      /\ SumSeq([k \in DOMAIN owners |-> owners[k].total_cases])
           = Len(cases_df)
      /\ \A x \in Range(cases_df) :
           \E k \in DOMAIN owners :
             /\ x.row \in RowsOf(owners[k].all_cases)
             /\ owners[k].owner_email = x.owner_email
             /\ \A j \in DOMAIN owners :
                  x.row \in RowsOf(owners[j].all_cases) => j = k
      /\ \A k \in DOMAIN owners :
           /\ Len(owners[k].all_cases) = owners[k].total_cases
           /\ Cardinality(RowsOf(owners[k].all_cases)) = owners[k].total_cases
           /\ RowsOf(owners[k].all_cases) \subseteq
                {x.row : x \in Range(cases_df)}
      /\ (cases_df = <<>> => owners = <<>>)

\* two owners share the validated rows, one of them has more than one
ConservationWitness ==
    /\ Grouped
    /\ Len(owners) = 2
    /\ Len(cases_df) > 3
    /\ \E k \in DOMAIN owners : owners[k].total_cases > 1

\* no validated rows, no digests
EmptyInputWitness == Grouped /\ cases_df = <<>> /\ owners = <<>>

\* C10: in every digest, cases of equal age keep their input order
StableTieOrder ==
    Grouped =>
      \A k \in DOMAIN owners :
        LET cases == owners[k].all_cases
        IN  \A p \in DOMAIN cases : \A q \in DOMAIN cases :
              (p < q /\ DfRow(cases[p].row).age_days.v
                          = DfRow(cases[q].row).age_days.v)
                => cases[p].row < cases[q].row

ExcludedNames == {MANAGER_OWNER_NAME, BLOCKED_OWNER_NAME}

\* the rows of the input whose owner is the manager or the blocked owner
ExcludedRows ==
    {k \in DOMAIN file.rows : Strip(file.rows[k].owner_name) \in ExcludedNames}

\* C3: no row of the manager or of the blocked owner is in a digest or in a
\* draft, and no digest, draft or delivery is in their name
ExcludedNeverAppear ==
    /\ \A k \in DOMAIN owners :
         /\ RowsOf(owners[k].all_cases) \cap ExcludedRows = {}
         /\ RowsOf(owners[k].top3) \cap ExcludedRows = {}
         /\ owners[k].owner_name \notin ExcludedNames
    /\ \A k \in DOMAIN drafts :
         /\ RowsOf(drafts[k].html_content.top3) \cap ExcludedRows = {}
         /\ drafts[k].html_content.owner_name \notin ExcludedNames
    /\ \A k \in DOMAIN attempts : attempts[k].owner_name \notin ExcludedNames

\* a live run over a file with manager and blocked rows next to others,
\* after a delivery
ExclusionWitness ==
    /\ pc = "done"
    /\ \E k \in ExcludedRows : file.rows[k].owner_name = " Raji Aoun "
    /\ \E k \in ExcludedRows : file.rows[k].owner_name = MANAGER_OWNER_NAME
    /\ attempts # <<>>

\* the input meets one of the fatal conditions of validation: the file
\* cannot be read, a required column is missing after normalisation, or a
\* row that reaches date parsing has an unparseable created_date
FatalInput ==
    \/ ~file.readable
    \/ \E c \in {"case_id", "case_title", "owner_name", "created_date"} :
         \A h \in file.header : COLUMN_MAP(NormalizeColumn(h)) # c
    \/ \E k \in DOMAIN file.rows :
         /\ file.rows[k].created_date.k = "bad"
         /\ Strip(file.rows[k].owner_name) \notin ExcludedNames

\* C4: on a fatal input the run ends inside load_and_validate: it never
\* reaches group_by_owner, build_drafts or send_emails, and there is no
\* digest, no draft and no delivery
FatalAbortsRun ==
    FatalInput =>
      /\ pc \in {"start", "sys.exit", "KeyError"}
      /\ cases_df = <<>>
      /\ owners = <<>>
      /\ drafts = <<>>
      /\ attempts = <<>>
      /\ results = <<>>
      /\ send_log = <<>>

\* the run has exited on an unparseable date next to a valid row
FatalDateWitness ==
    /\ pc = "sys.exit"
    /\ file.readable
    /\ \E k \in DOMAIN file.rows :
         /\ file.rows[k].created_date.k = "bad"
         /\ file.rows[k].owner_name = "Fadi Hanna"
    /\ \E k \in DOMAIN file.rows :
         /\ file.rows[k].created_date.k = "date"
         /\ file.rows[k].owner_name = "Jana Sweid"

\* the drafts the loop of send_emails has passed that are not filtered out
PassedDrafts ==
    LET Kept(d) == ~Skipped(d.owner_email, owner_filter)
    IN  SelectSeq(SubSeq(drafts, 1, Min(i - 1, Len(drafts))), Kept)

\* C5: in send_emails every draft that passes the filter gets one delivery
\* attempt, one result and one log entry, in draft order, with its owner's
\* email and the status of its own attempt, whatever happened to the
\* others; at the end no such draft is left out
EveryOwnerAttempted ==
    pc \in {"sending", "done"} /\ send =>
      /\ Len(attempts) = Len(PassedDrafts)
      /\ Len(results) = Len(PassedDrafts)
      /\ Len(log) = Len(PassedDrafts)
      /\ \A k \in DOMAIN PassedDrafts :
           /\ attempts[k].owner_email = PassedDrafts[k].owner_email
           /\ results[k].owner_email = PassedDrafts[k].owner_email
           /\ log[k].owner_email = PassedDrafts[k].owner_email
           /\ results[k].status = log[k].status
           /\ (attempts[k].delivered <=> results[k].status = "SENT")
           /\ (~attempts[k].delivered => results[k].status = "FAILED: error")
      /\ pc = "done" =>
           /\ i = Len(drafts) + 1
           /\ send_log = log
           /\ summary.sent + Len(summary.failed) = Len(PassedDrafts)
           /\ \A k \in DOMAIN summary.failed :
                summary.failed[k].status # "SENT"

\* a first delivery failed and a second was made and succeeded
FailureThenSentWitness ==
    /\ pc = "done"
    /\ Len(results) = 2
    /\ results[1].status # "SENT"
    /\ results[2].status = "SENT"
    /\ results[1].owner_email # results[2].owner_email

\* C6: without the live-send flag send_emails is never entered, nothing is
\* delivered, the result list and the delivery log stay empty, and the run
\* still ends with a draft for every owner that passes the filter
DryRunSendsNothing ==
    ~send =>
      /\ pc # "sending"
      /\ attempts = <<>>
      /\ results = <<>>
      /\ log = <<>>
      /\ send_log = <<>>
      /\ pc = "done" =>
           /\ summary.dry_run
           /\ summary.sent = 0
           /\ \A k \in DOMAIN owners :
                ~Skipped(owners[k].owner_email, owner_filter) =>
                  \E j \in DOMAIN drafts :
                    drafts[j].owner_email = owners[k].owner_email

\* a dry run has ended with two drafts
DryRunWitness == ~send /\ pc = "done" /\ Len(drafts) = 2

\* C7 as stated: under a single-owner filter nothing exists for any other
\* owner, neither digest nor draft nor delivery
FilterSkipsOthersEntirely ==
    owner_filter # "" =>
      /\ \A k \in DOMAIN owners : owners[k].owner_email = owner_filter
      /\ \A k \in DOMAIN drafts : drafts[k].owner_email = owner_filter
      /\ \A k \in DOMAIN attempts : attempts[k].owner_email = owner_filter

\* C7 amended: under a single-owner filter every draft, delivery attempt,
\* result and log entry is that owner's, and that owner's digest gets its
\* draft; group_by_owner is not filtered
FilterLimitsDraftsAndDelivery ==
    owner_filter # "" =>
      /\ \A k \in DOMAIN drafts : drafts[k].owner_email = owner_filter
      /\ \A k \in DOMAIN attempts : attempts[k].owner_email = owner_filter
      /\ \A k \in DOMAIN results : results[k].owner_email = owner_filter
      /\ \A k \in DOMAIN log : log[k].owner_email = owner_filter
      /\ pc \in {"drafted", "sending", "done"} =>
           \A k \in DOMAIN owners :
             owners[k].owner_email = owner_filter =>
               \E j \in DOMAIN drafts : drafts[j].owner_email = owner_filter

\* a filtered live run over two owners has ended with one delivery
FilterWitness ==
    /\ pc = "done"
    /\ owner_filter = "JSweid@info-sys.com"
    /\ Len(owners) = 2
    /\ Len(drafts) = 1
    /\ Len(attempts) = 1

\* C8: every case of every digest belongs to an owner with a directory
\* email and has a case_id that is not empty once stripped; rows with no
\* directory match or no case_id are in no digest
CasesHaveOwnerAndId ==
    Grouped =>
      /\ \A k \in DOMAIN owners :
           /\ \E n \in DOMAIN OWNER_EMAIL_MAP :
                OWNER_EMAIL_MAP[n] = owners[k].owner_email
           /\ \A p \in DOMAIN owners[k].all_cases :
                owners[k].all_cases[p].case_id \notin {"", NaN}
      /\ \A r \in DOMAIN file.rows :
           (\/ Strip(file.rows[r].owner_name) \notin DOMAIN OWNER_EMAIL_MAP
            \/ file.rows[r].case_id \in {"", NaN})
             => \A k \in DOMAIN owners : r \notin RowsOf(owners[k].all_cases)

\* C9 as stated: every case of every digest has an age >= 0 that is the
\* explicit age when that is a number and today - created_date otherwise
AgeNonNegative ==
    Grouped =>
      \A k \in DOMAIN owners : \A p \in DOMAIN owners[k].all_cases :
        LET c == owners[k].all_cases[p]
            src == file.rows[c.row]
            explicit == /\ "age_days" \in Columns(file.header)
                        /\ src.age_days.k = "num"
        IN  /\ c.age_days >= 0
            /\ explicit => c.age_days * AgeScale = src.age_days.v
            /\ ~explicit => /\ src.created_date.k = "date"
                            /\ c.age_days = Today - src.created_date.v

\* C9 amended: the age of every case of every digest is an integer: the
\* explicit age rounded toward zero when that is a number, and otherwise
\* today - created_date in days; it is >= 0 when that explicit age is, or
\* when there is none and created_date is not after today
AgeFromSource ==
    Grouped =>
      \A k \in DOMAIN owners : \A p \in DOMAIN owners[k].all_cases :
        LET c == owners[k].all_cases[p]
            src == file.rows[c.row]
            explicit == /\ "age_days" \in Columns(file.header)
                        /\ src.age_days.k = "num"
            v == src.age_days.v
            a == c.age_days * AgeScale
        IN  /\ c.age_days \in Int
            /\ explicit =>
                 /\ v >= 0 => (a <= v /\ v < a + AgeScale /\ c.age_days >= 0)
                 /\ v < 0 => (v <= a /\ a - AgeScale < v)
            /\ ~explicit =>
                 /\ src.created_date.k = "date"
                 /\ c.age_days = Today - src.created_date.v
                 /\ src.created_date.v <= Today => c.age_days >= 0

\* one digest holds a case with a fractional explicit age and a case whose
\* age text is no number and was computed from its date
AgeWitness ==
    /\ Grouped
    /\ \E k \in DOMAIN owners :
         /\ \E p \in DOMAIN owners[k].all_cases :
              file.rows[owners[k].all_cases[p].row].age_days = Num(5)
         /\ \E p \in DOMAIN owners[k].all_cases :
              file.rows[owners[k].all_cases[p].row].age_days = TextAge

====
